---- MODULE Spec2Model ----
(***************************************************************************)
(* Model of dark_window (src/src/main.rs): a single top-level window that  *)
(* follows the OS light/dark preference.  The state is the two process-wide*)
(* flags IS_DARK_MODE and IS_FIRST_PAINT, the position of main, the OS     *)
(* registry value the detector reads, and a record of what the last window *)
(* procedure invocation did (the OS calls it issued, whether it returned   *)
(* and with which LRESULT).                                                *)
(***************************************************************************)
EXTENDS Integers, Sequences, FiniteSets, TLC

VARIABLES
    pc,             \* position of main: start, detected, running, destroyed (quit posted),
                    \* orphaned (window gone, no quit posted), exited, aborted
    regStatus,      \* OS: "ok", "open_fails" (RegOpenKeyExA fails), "query_fails" (RegQueryValueExA fails)
    regValue,       \* OS: the 32-bit AppsUseLightTheme value, as its four bytes
    IS_DARK_MODE,   \* static AtomicBool, main.rs:22
    IS_FIRST_PAINT, \* static AtomicBool, main.rs:23
    chrome,         \* OS: last dark-chrome attribute value the window accepted (-1 = never set)
    invalid,        \* OS: the window has a pending invalid region to erase
    last,           \* what the last wndproc invocation did
    blurRet,        \* return value of set_window_blur in WM_CREATE: "not_run", "true", "false"
    surface,        \* OS: colours currently on the client area, <<bk, text>> or <<-1, -1>>
    held,           \* OS: the transient handles the process holds between events
    flips,          \* history: number of times IS_FIRST_PAINT changed value
    forcedRedraws,  \* history: number of RedrawWindow(RDW_FRAME | RDW_INVALIDATE) requests
    erases,         \* history: number of WM_ERASEBKGND events handled
    readAtDetect,   \* history: "none", or whether the last check_dark_mode read "ok" or "failed"
    osDarkAtDetect, \* history: the OS preference (dark?) when check_dark_mode last ran
    observedChange, \* history: the last WM_SETTINGCHANGE found the OS preference changed
    settingRun      \* history: WM_SETTINGCHANGE events handled in a row with the registry
                    \* untouched since the first of them (capped at 2)

vars == <<pc, regStatus, regValue, IS_DARK_MODE, IS_FIRST_PAINT, chrome, invalid,
          last, blurRet, surface, held, flips, forcedRedraws, erases,
          readAtDetect, osDarkAtDetect, observedChange, settingRun>>

(***************************************************************************)
(* Bounds of the model.                                                    *)
(***************************************************************************)
MaxErase == 2

(***************************************************************************)
(* Program constants.                                                      *)
(***************************************************************************)
DWMSBT_TRANSIENTWINDOW == 3
ACCENT_ENABLE_BLURBEHIND == 3
CLR_WHITE == 16777215
CLR_BLACK == 0
CLR_DARK_PURPLE == 5178911
MARGIN_WHOLE == -1

\* (0x40 << 24) | (0x2f2f2f & 0xFFFFFF), main.rs:134
GradientColor == (64 * 16777216) + (3092271 % 16777216)

\* A 32-bit register value is held as its four bytes, least significant
\* first, the layout RegQueryValueExA writes into the buffer.
DWord(b0, b1, b2, b3) == <<b0, b1, b2, b3>>

DWordZero == DWord(0, 0, 0, 0)

\* The values AppsUseLightTheme takes in the model: 0, 1, 256 (nonzero with
\* a zero low byte) and 0xFFFFFFFF.
RegValues == {DWordZero, DWord(1, 0, 0, 0), DWord(0, 1, 0, 0), DWord(255, 255, 255, 255)}

RegStatuses == {"ok", "open_fails", "query_fails"}

\* What a panic inside the extern "system" window procedure can do: the
\* process aborts, or the unwind leaves the handler and the message loop
\* keeps running.
PanicOutcomes == {"abort", "unwind"}

NoSurface == <<-1, -1>>
NoCalls == << >>

\* one OS call issued by a handler: its name, its main argument, a second
\* argument where one matters (0 otherwise) and whether the OS accepted it
CallX(api, arg, extra, ok) == [api |-> api, arg |-> arg, extra |-> extra, ok |-> ok]

Call(api, arg, ok) == CallX(api, arg, 0, ok)

(***************************************************************************)
(* check_dark_mode, main.rs:25-39.                                         *)
(***************************************************************************)
\* vec![0u8; len], main.rs:30
ZeroBuffer == [i \in 1..4 |-> 0]

\* RegOpenKeyExA + RegQueryValueExA, results discarded (main.rs:28, 31): the
\* buffer is written only when both succeed.
RegQueryValueExA(status, value, buffer) ==
    IF status = "ok" THEN [i \in 1..4 |-> value[i]] ELSE buffer

\* the value check_dark_mode stores into IS_DARK_MODE
check_dark_mode(status, value) ==
    LET buffer == RegQueryValueExA(status, value, ZeroBuffer)
    IN  IF buffer[1] = 0 THEN TRUE ELSE FALSE

\* the OS preference itself: AppsUseLightTheme = 0 means dark, any other
\* value or an unreadable value means light
OsDark == regStatus = "ok" /\ regValue = DWordZero

(***************************************************************************)
(* The composition helpers, main.rs:41-147.  Each returns the OS calls it  *)
(* issued and either its return value or whether it panicked (unwrap).     *)
(***************************************************************************)
BoolToU32(b) == IF b THEN 1 ELSE 0

\* main.rs:41-46: DwmSetWindowAttribute(...).unwrap()
enable_dark_mode(enable, ok) ==
    [calls    |-> <<Call("DwmSetWindowAttribute:USE_IMMERSIVE_DARK_MODE", BoolToU32(enable), ok)>>,
     panicked |-> ~ok]

\* main.rs:59-68: an Err is logged and turned into false
set_backdrop_type(backdrop, ok) ==
    [calls |-> <<Call("DwmSetWindowAttribute:SYSTEMBACKDROP_TYPE", backdrop, ok)>>,
     ret   |-> ok]

\* main.rs:107-117: DwmEnableBlurBehindWindow(...).unwrap()
enable_blur_behind(ok) ==
    [calls    |-> <<Call("DwmEnableBlurBehindWindow", 1, ok)>>,
     panicked |-> ~ok]

\* main.rs:251: DwmExtendFrameIntoClientArea(window, &margins).unwrap()
extend_frame(ok) ==
    [calls    |-> <<Call("DwmExtendFrameIntoClientArea", MARGIN_WHOLE, ok)>>,
     panicked |-> ~ok]

\* set_window_blur reporting success whenever the entry point is present,
\* without looking at the BOOL it returns
set_window_blur_ignoring_result(accent_state, loadOk, procOk, callOk) ==
    LET load == <<Call("LoadLibraryA", 0, loadOk)>>
        proc == <<Call("GetProcAddress", 0, procOk)>>
        attr == <<CallX("SetWindowCompositionAttribute", accent_state, GradientColor, callOk)>>
    IN  IF ~loadOk THEN [calls |-> load, ret |-> FALSE]
        ELSE IF ~procOk THEN [calls |-> load \o proc, ret |-> FALSE]
        ELSE [calls |-> load \o proc \o attr, ret |-> TRUE]

\* main.rs:119-147: false when user32.dll cannot be loaded or the entry point
\* is missing, otherwise the BOOL the entry point returns
set_window_blur(accent_state, loadOk, procOk, callOk) ==
    LET load == <<Call("LoadLibraryA", 0, loadOk)>>
        proc == <<Call("GetProcAddress", 0, procOk)>>
        attr == <<CallX("SetWindowCompositionAttribute", accent_state, GradientColor, callOk)>>
    IN  IF ~loadOk THEN [calls |-> load, ret |-> FALSE]
        ELSE IF ~procOk THEN [calls |-> load \o proc, ret |-> FALSE]
        ELSE [calls |-> load \o proc \o attr, ret |-> callOk]

BoolStr(b) == IF b THEN "true" ELSE "false"

(***************************************************************************)
(* wndproc, main.rs:239-314, one operator per arm.  os is the record of    *)
(* what the OS answers to each call the arm may issue.                     *)
(***************************************************************************)
\* WM_CREATE, main.rs:242-257
wm_create(isDark, os) ==
    LET dm == enable_dark_mode(isDark, os.chromeOk)
        bd == set_backdrop_type(DWMSBT_TRANSIENTWINDOW, os.backdropOk)
        ef == extend_frame(os.extendOk)
        wb == set_window_blur(ACCENT_ENABLE_BLURBEHIND, os.loadOk, os.procOk, os.callOk)
        bb == enable_blur_behind(os.bbOk)
    IN  IF dm.panicked
          THEN [calls |-> dm.calls, panicked |-> TRUE, blur |-> "not_run", result |-> 0]
        ELSE IF ~bd.ret
          THEN IF ef.panicked
                 THEN [calls |-> dm.calls \o bd.calls \o ef.calls, panicked |-> TRUE,
                       blur |-> "not_run", result |-> 0]
                 ELSE [calls |-> dm.calls \o bd.calls \o ef.calls \o wb.calls,
                       panicked |-> FALSE, blur |-> BoolStr(wb.ret), result |-> 0]
        ELSE [calls |-> dm.calls \o bd.calls \o bb.calls, panicked |-> bb.panicked,
              blur |-> "not_run", result |-> 0]

\* the palette with the text colours of the two entries exchanged
Palette_mixed(isDark) ==
    IF isDark THEN [bk |-> CLR_DARK_PURPLE, text |-> CLR_BLACK]
              ELSE [bk |-> CLR_WHITE, text |-> CLR_WHITE]

\* the two-entry palette, main.rs:262-273
Palette(isDark) ==
    IF isDark THEN [bk |-> CLR_DARK_PURPLE, text |-> CLR_WHITE]
              ELSE [bk |-> CLR_WHITE, text |-> CLR_BLACK]

\* the arm without the store of main.rs:286
first_paint_store_forgotten(firstPaint) == firstPaint

\* main.rs:285-286: the value IS_FIRST_PAINT holds after the arm
first_paint_store(firstPaint) == IF firstPaint THEN FALSE ELSE firstPaint

\* the redraw kick issued without the test of main.rs:285
first_paint_kick_unguarded(firstPaint, kickOk) ==
    <<Call("RedrawWindow", 0, kickOk), Call("InvalidateRect", 1, kickOk)>>

\* main.rs:285-290: the one-time redraw kick is issued when the flag was set
first_paint_kick(firstPaint, kickOk) ==
    IF firstPaint
      THEN <<Call("RedrawWindow", 0, kickOk), Call("InvalidateRect", 1, kickOk)>>
      ELSE NoCalls

\* the LRESULT of the WM_ERASEBKGND arm, main.rs:291
ERASE_RESULT == 0

\* the flag as a nested invocation would read it, had the store of
\* main.rs:286 been placed after the redraw request
flag_at_redraw_stale(firstPaint) == firstPaint

\* main.rs:286-288: the value IS_FIRST_PAINT holds while RedrawWindow runs;
\* the store precedes the request
flag_at_redraw(firstPaint) == first_paint_store(firstPaint)

\* WM_ERASEBKGND, main.rs:258-292
wm_erasebkgnd(isDark, firstPaint, os) ==
    LET p == Palette(isDark)
        paint == <<Call("GetClientRect", 0, TRUE),
                   Call("CreateSolidBrush", p.bk, os.drawOk),
                   Call("FillRect", p.bk, os.drawOk),
                   Call("DeleteObject", 0, os.drawOk),
                   Call("SetBkColor", p.bk, os.drawOk),
                   Call("SetTextColor", p.text, os.drawOk),
                   Call("DrawTextA", p.text, os.drawOk)>>
    IN  [calls      |-> paint \o first_paint_kick(firstPaint, os.kickOk),
         panicked   |-> FALSE,
         firstPaint |-> first_paint_store(firstPaint),
         result     |-> ERASE_RESULT]

\* the arm flipping the stored theme instead of detecting it again
wm_settingchange_toggling(status, value, os) ==
    LET dark == ~IS_DARK_MODE
        dm   == enable_dark_mode(dark, os.chromeOk)
    IN  [isDark   |-> dark,
         calls    |-> IF dm.panicked THEN dm.calls
                      ELSE dm.calls \o <<Call("InvalidateRect", 1, os.invOk)>>,
         panicked |-> dm.panicked,
         result   |-> 0]

\* WM_SETTINGCHANGE, main.rs:304-310
wm_settingchange(status, value, os) ==
    LET dark == check_dark_mode(status, value)
        dm   == enable_dark_mode(dark, os.chromeOk)
    IN  [isDark   |-> dark,
         calls    |-> IF dm.panicked THEN dm.calls
                      ELSE dm.calls \o <<Call("InvalidateRect", 1, os.invOk)>>,
         panicked |-> dm.panicked,
         result   |-> 0]

\* the arm without the PostQuitMessage of main.rs:301
wm_destroy_without_quit == [calls |-> NoCalls, panicked |-> FALSE, result |-> 0]

\* WM_DESTROY, main.rs:299-303
wm_destroy == [calls |-> <<Call("PostQuitMessage", 0, TRUE)>>, panicked |-> FALSE, result |-> 0]

\* the numeric identifiers of the messages left to the default arm (message: u32)
MsgId(m) == CASE m = "WM_PAINT" -> 15 [] m = "WM_NCDESTROY" -> 130

\* the default arm handing on another message than the one received
wm_default_other_message(m, wparam, defResult) ==
    [calls |-> <<CallX("DefWindowProcA", 0, wparam, TRUE),
                 Call("DefWindowProcA.result", defResult, TRUE)>>,
     panicked |-> FALSE, result |-> defResult]

\* the default arm, main.rs:311: DefWindowProcA receives the message and its
\* parameter as wndproc received them and its result is the arm's result
wm_default(m, wparam, defResult) ==
    [calls |-> <<CallX("DefWindowProcA", MsgId(m), wparam, TRUE),
                 Call("DefWindowProcA.result", defResult, TRUE)>>,
     panicked |-> FALSE, result |-> defResult]

(***************************************************************************)
(* The state machine.                                                      *)
(***************************************************************************)
Bool == {TRUE, FALSE}

CreateAnswers == [chromeOk : Bool, backdropOk : Bool, extendOk : Bool,
                  loadOk : Bool, procOk : Bool, callOk : Bool, bbOk : Bool]
\* nested: the substrate delivers a WM_ERASEBKGND re-entrantly while
\* RedrawWindow runs; nestedDrawOk: the drawing calls of that invocation
EraseAnswers == [drawOk : Bool, kickOk : Bool, nested : Bool, nestedDrawOk : Bool]
SettingAnswers == [chromeOk : Bool, invOk : Bool]

\* messages the window procedure leaves to DefWindowProcA: WM_PAINT while the
\* window exists, WM_NCDESTROY once WM_DESTROY has been handled
OtherMsgs(at) == IF at = "running" THEN {"WM_PAINT"} ELSE {"WM_NCDESTROY"}
\* the parameter a message arrives with: WM_NCDESTROY carries none
WParams(m) == IF m = "WM_NCDESTROY" THEN {0} ELSE {0, 1}
DefResults == {0, 1}

\* the record of a window procedure invocation: the message and parameter
\* received, the calls issued, the calls of an invocation nested in it
Received(msg, wparam, h, nested) ==
    [msg |-> msg, wparam |-> wparam, calls |-> h.calls, nested |-> nested,
     returned |-> ~h.panicked, result |-> h.result]

Handled(msg, h) == Received(msg, 0, h, NoCalls)

\* the position of main after a window procedure invocation
AfterHandler(h, outcome, next) ==
    IF h.panicked /\ outcome = "abort" THEN "aborted" ELSE next

\* the dark-chrome value the window holds after the calls of a handler
ChromeAfter(calls, old) ==
    IF calls # NoCalls /\ calls[1].api = "DwmSetWindowAttribute:USE_IMMERSIVE_DARK_MODE"
       /\ calls[1].ok
      THEN calls[1].arg ELSE old

\* some call of the sequence is to api
Issued(calls, api) == \E i \in DOMAIN calls : calls[i].api = api

\* the number of calls to api in the sequence
Count(calls, api) == Cardinality({i \in DOMAIN calls : calls[i].api = api})

\* whether the registry read of check_dark_mode succeeds
ReadResult == IF regStatus = "ok" THEN "ok" ELSE "failed"

\* some call of the sequence is to api and the OS accepted it
Accepted(calls, api) == \E i \in DOMAIN calls : calls[i].api = api /\ calls[i].ok

\* the transient handles held once the calls of a handler are done: a brush
\* from CreateSolidBrush until DeleteObject, a module from LoadLibraryA until
\* FreeLibrary
HeldAfter(calls, old) ==
    LET got == (IF Accepted(calls, "CreateSolidBrush") THEN {"brush"} ELSE {})
                 \cup (IF Accepted(calls, "LoadLibraryA") THEN {"module"} ELSE {})
        freed == (IF Accepted(calls, "DeleteObject") THEN {"brush"} ELSE {})
                   \cup (IF Accepted(calls, "FreeLibrary") THEN {"module"} ELSE {})
    IN  (old \cup got) \ freed

Init ==
    /\ pc = "start"
    /\ regStatus \in RegStatuses
    /\ regValue \in RegValues
    /\ IS_DARK_MODE = FALSE
    /\ IS_FIRST_PAINT = TRUE
    /\ chrome = -1
    /\ invalid = FALSE
    /\ last = [msg |-> "none", wparam |-> 0, calls |-> NoCalls, nested |-> NoCalls,
               returned |-> TRUE, result |-> 0]
    /\ blurRet = "not_run"
    /\ surface = NoSurface
    /\ held = {}
    /\ flips = 0
    /\ forcedRedraws = 0
    /\ erases = 0
    /\ readAtDetect = "none"
    /\ osDarkAtDetect = FALSE
    /\ observedChange = FALSE
    /\ settingRun = 0

\* main reaching CreateWindowExA without having run check_dark_mode
MainDetect_skipped ==
    /\ pc = "start"
    /\ pc' = "detected"
    /\ UNCHANGED <<regStatus, regValue, IS_DARK_MODE, IS_FIRST_PAINT, chrome, invalid,
                   last, blurRet, surface, held, flips, forcedRedraws, erases,
                   readAtDetect, osDarkAtDetect, observedChange, settingRun>>

\* main.rs:187-188: SetProcessDpiAwareness(...).unwrap(); check_dark_mode()
MainDetect ==
    /\ pc = "start"
    /\ \E dpiOk \in Bool :
         IF dpiOk
           THEN /\ pc' = "detected"
                /\ IS_DARK_MODE' = check_dark_mode(regStatus, regValue)
                /\ readAtDetect' = ReadResult
                /\ osDarkAtDetect' = OsDark
           ELSE /\ pc' = "aborted"
                /\ UNCHANGED <<IS_DARK_MODE, readAtDetect, osDarkAtDetect>>
    /\ UNCHANGED <<regStatus, regValue, IS_FIRST_PAINT, chrome, invalid, last, blurRet,
                   surface, held, flips, forcedRedraws, erases, observedChange, settingRun>>

\* main.rs:190-228: the class is registered and CreateWindowExA delivers
\* WM_CREATE to wndproc before it returns; WS_VISIBLE leaves the new window
\* with its client area to erase.  A cursor that cannot be loaded ends main.
MainCreateWindow ==
    /\ pc = "detected"
    /\ \E cursorOk \in Bool, os \in CreateAnswers, outcome \in PanicOutcomes :
         IF cursorOk
           THEN LET h == wm_create(IS_DARK_MODE, os)
                IN  /\ pc' = AfterHandler(h, outcome, "running")
                    /\ last' = Handled("WM_CREATE", h)
                    /\ chrome' = ChromeAfter(h.calls, chrome)
                    /\ blurRet' = h.blur
                    /\ held' = HeldAfter(h.calls, held)
                    /\ invalid' = TRUE
           ELSE /\ pc' = "exited"
                /\ UNCHANGED <<last, chrome, blurRet, held, invalid>>
    /\ UNCHANGED <<regStatus, regValue, IS_DARK_MODE, IS_FIRST_PAINT, surface, flips,
                   forcedRedraws, erases, readAtDetect, osDarkAtDetect, observedChange,
                   settingRun>>

\* wndproc receives WM_ERASEBKGND, main.rs:258-292.  While the RedrawWindow
\* of the first paint runs, the substrate may deliver one more WM_ERASEBKGND
\* to wndproc, which runs to its end inside the request.
WmEraseBkgnd ==
    /\ pc = "running"
    /\ invalid
    /\ erases < MaxErase
    /\ \E os \in EraseAnswers :
         LET h == wm_erasebkgnd(IS_DARK_MODE, IS_FIRST_PAINT, os)
             p == Palette(IS_DARK_MODE)
             reentered == Issued(h.calls, "RedrawWindow") /\ os.nested
             n == wm_erasebkgnd(IS_DARK_MODE, flag_at_redraw(IS_FIRST_PAINT),
                                [os EXCEPT !.drawOk = os.nestedDrawOk])
             nestedCalls == IF reentered THEN n.calls ELSE NoCalls
             flagAfter == IF reentered THEN n.firstPaint ELSE h.firstPaint
         IN  /\ last' = Received("WM_ERASEBKGND", 0, h, nestedCalls)
             /\ IS_FIRST_PAINT' = flagAfter
             /\ flips' = IF flagAfter # IS_FIRST_PAINT THEN flips + 1 ELSE flips
             /\ forcedRedraws' = forcedRedraws + Count(h.calls, "RedrawWindow")
                                   + Count(nestedCalls, "RedrawWindow")
             /\ invalid' = (Accepted(h.calls, "InvalidateRect")
                              \/ Accepted(nestedCalls, "InvalidateRect"))
             /\ surface' = IF reentered /\ os.nestedDrawOk THEN <<p.bk, p.text>>
                           ELSE IF os.drawOk THEN <<p.bk, p.text>> ELSE surface
             /\ held' = HeldAfter(nestedCalls, HeldAfter(h.calls, held))
    /\ erases' = erases + 1
    /\ settingRun' = 0
    /\ UNCHANGED <<pc, regStatus, regValue, IS_DARK_MODE, chrome, blurRet,
                   readAtDetect, osDarkAtDetect, observedChange>>

\* wndproc receives WM_SETTINGCHANGE, main.rs:304-310
WmSettingChange ==
    /\ pc = "running"
    /\ \E os \in SettingAnswers, outcome \in PanicOutcomes :
         LET h == wm_settingchange(regStatus, regValue, os)
         IN  /\ pc' = AfterHandler(h, outcome, "running")
             /\ last' = Handled("WM_SETTINGCHANGE", h)
             /\ IS_DARK_MODE' = h.isDark
             /\ chrome' = ChromeAfter(h.calls, chrome)
             /\ invalid' = (invalid \/ Accepted(h.calls, "InvalidateRect"))
             /\ held' = HeldAfter(h.calls, held)
    /\ observedChange' = (OsDark # osDarkAtDetect)
    /\ readAtDetect' = ReadResult
    /\ osDarkAtDetect' = OsDark
    /\ settingRun' = IF settingRun = 0 THEN 1 ELSE 2
    /\ UNCHANGED <<regStatus, regValue, IS_FIRST_PAINT, blurRet, surface, flips,
                   forcedRedraws, erases>>

\* wndproc receives WM_DESTROY, main.rs:299-303: with the quit request posted
\* the message loop will end, without it main waits in GetMessageA for ever
WmDestroy ==
    /\ pc = "running"
    /\ pc' = IF Issued(wm_destroy.calls, "PostQuitMessage") THEN "destroyed" ELSE "orphaned"
    /\ last' = Handled("WM_DESTROY", wm_destroy)
    /\ held' = HeldAfter(wm_destroy.calls, held)
    /\ settingRun' = 0
    /\ UNCHANGED <<regStatus, regValue, IS_DARK_MODE, IS_FIRST_PAINT, chrome, invalid,
                   blurRet, surface, flips, forcedRedraws, erases, readAtDetect, osDarkAtDetect,
                   observedChange>>

\* the default arm storing into IS_DARK_MODE
WmOther_clearing_theme ==
    /\ pc \in {"running", "destroyed", "orphaned"}
    /\ \E m \in OtherMsgs(pc) : \E w \in WParams(m), r \in DefResults :
         last' = Received(m, w, wm_default(m, w, r), NoCalls)
    /\ IS_DARK_MODE' = FALSE
    /\ settingRun' = 0
    /\ UNCHANGED <<pc, regStatus, regValue, IS_FIRST_PAINT, chrome, invalid,
                   blurRet, surface, held, flips, forcedRedraws, erases, readAtDetect,
                   osDarkAtDetect, observedChange>>

\* wndproc receives any other message, main.rs:311
WmOther ==
    /\ pc \in {"running", "destroyed", "orphaned"}
    /\ \E m \in OtherMsgs(pc) : \E w \in WParams(m), r \in DefResults :
         last' = Received(m, w, wm_default(m, w, r), NoCalls)
    /\ settingRun' = 0
    /\ UNCHANGED <<pc, regStatus, regValue, IS_DARK_MODE, IS_FIRST_PAINT, chrome, invalid,
                   blurRet, surface, held, flips, forcedRedraws, erases, readAtDetect,
                   osDarkAtDetect, observedChange>>

\* main.rs:230-235: GetMessageA returns 0 on the posted WM_QUIT
MainLoopExit ==
    /\ pc = "destroyed"
    /\ pc' = "exited"
    /\ UNCHANGED <<regStatus, regValue, IS_DARK_MODE, IS_FIRST_PAINT, chrome, invalid,
                   last, blurRet, surface, held, flips, forcedRedraws, erases, readAtDetect,
                   osDarkAtDetect, observedChange, settingRun>>

\* environment: the user changes the theme setting, or the value becomes
\* unreadable or readable again
UserChangesPref ==
    /\ pc \in {"detected", "running"}
    /\ regStatus' \in RegStatuses
    /\ regValue' \in RegValues
    /\ <<regStatus', regValue'>> # <<regStatus, regValue>>
    /\ settingRun' = 0
    /\ UNCHANGED <<pc, IS_DARK_MODE, IS_FIRST_PAINT, chrome, invalid, last, blurRet,
                   surface, held, flips, forcedRedraws, erases, readAtDetect, osDarkAtDetect,
                   observedChange>>

\* environment: the window is resized or uncovered and needs erasing
Expose ==
    /\ pc = "running"
    /\ ~invalid
    /\ invalid' = TRUE
    /\ UNCHANGED <<pc, regStatus, regValue, IS_DARK_MODE, IS_FIRST_PAINT, chrome,
                   last, blurRet, surface, held, flips, forcedRedraws, erases, readAtDetect,
                   osDarkAtDetect, observedChange, settingRun>>

Next ==
    \/ MainDetect
    \/ MainCreateWindow
    \/ WmEraseBkgnd
    \/ WmSettingChange
    \/ WmDestroy
    \/ WmOther
    \/ MainLoopExit
    \/ UserChangesPref
    \/ Expose

Spec == Init /\ [][Next]_vars

\* the substrate delivers the posted quit request: GetMessageA returns it
\* once the queue holds nothing else
FairSpec == Spec /\ WF_vars(MainLoopExit)

(***************************************************************************)
(* The claims.                                                             *)
(***************************************************************************)
DarkChromeApi == "DwmSetWindowAttribute:USE_IMMERSIVE_DARK_MODE"
BackdropApi == "DwmSetWindowAttribute:SYSTEMBACKDROP_TYPE"

\* the position of the first call to api in a call sequence, 0 if none
IndexOf(calls, api) ==
    IF Issued(calls, api)
      THEN CHOOSE i \in DOMAIN calls :
             calls[i].api = api /\ \A j \in 1..(i - 1) : calls[j].api # api
      ELSE 0

AfterCreate == last.msg = "WM_CREATE"
AfterErase == last.msg = "WM_ERASEBKGND"
AfterSettingChange == last.msg = "WM_SETTINGCHANGE"

BackdropRejected ==
    Issued(last.calls, BackdropApi) /\ ~Accepted(last.calls, BackdropApi)

\* the legacy capability was resolved: the module loaded and the entry point found
CapabilityPresent ==
    Accepted(last.calls, "LoadLibraryA") /\ Accepted(last.calls, "GetProcAddress")

\* the outcome of the legacy step, as the return value of set_window_blur
LegacyOutcome ==
    IF blurRet = "true" THEN "LegacyBlurApplied"
    ELSE IF blurRet = "false" THEN "Failed"
    ELSE "none"

\* C1: whenever the registry read of the last theme detection failed (at
\* startup or in a settings-change event), isDark is false.
C1_FailsOpenToLight ==
    readAtDetect = "failed" => IS_DARK_MODE = FALSE

\* C2: whenever the last theme detection read the register value v
\* successfully, isDark is true if and only if v = 0.
C2_DarkIffZero ==
    readAtDetect = "ok" => (IS_DARK_MODE <=> osDarkAtDetect)

\* C3: every erase-background event the window procedure handles returns a
\* non-zero result.
C3_EraseReturnsHandled ==
    AfterErase => last.result # 0

\* C4: every window procedure invocation returns normally, whatever OS call
\* failed in it, and the process is not aborted by it.
C4_HandlersReturnNormally ==
    last.returned

\* C5: in every creation run the system-backdrop request is issued, whether
\* or not the dark-chrome set succeeded.
C5_BackdropAlwaysRequested ==
    AfterCreate => Issued(last.calls, BackdropApi)

\* C6: on creation the dark-chrome set comes before the backdrop request, the
\* backdrop request before any legacy step; the frame extension and the
\* legacy accent-policy step are attempted if and only if the backdrop
\* request was rejected.
C6_StrictFallbackOrder ==
    AfterCreate =>
      /\ last.calls[1].api = DarkChromeApi
      /\ Issued(last.calls, BackdropApi) => IndexOf(last.calls, BackdropApi) = 2
      /\ Issued(last.calls, "DwmExtendFrameIntoClientArea") <=> BackdropRejected
      /\ Issued(last.calls, "LoadLibraryA") <=> BackdropRejected

C8_FirstPaintOnce ==
    /\ IS_FIRST_PAINT <=> erases = 0
    /\ flips = (IF erases = 0 THEN 0 ELSE 1)

\* C8 witness: several erase-background events and a settings change have
\* been handled.
C8_Witness ==
    /\ erases >= 2
    /\ AfterSettingChange
    /\ ~IS_FIRST_PAINT
    /\ flips = 1

\* C9: the forced frame redraw is requested by the first erase-background
\* event and by no later one.
C9_ForcedRedrawOnce ==
    /\ forcedRedraws = (IF erases = 0 THEN 0 ELSE 1)
    /\ (AfterErase /\ erases >= 2) => ~Issued(last.calls, "RedrawWindow")
    /\ (AfterErase /\ erases = 1) =>
         (Issued(last.calls, "RedrawWindow") /\ Issued(last.calls, "InvalidateRect"))

\* C9 witness: a later erase-background event, after a settings change that
\* changed the theme, did not request the redraw.
C9_Witness ==
    /\ AfterErase
    /\ erases >= 2
    /\ observedChange
    /\ forcedRedraws = 1

\* C10: after a settings-change event that found the OS preference changed,
\* ThemeState is the new preference, the dark-chrome attribute was set again
\* with it and the invalidation was requested; every erase-background after
\* it paints with the palette of the new preference.
C10_ThemeFollowsSettingChange ==
    /\ (AfterSettingChange /\ observedChange) =>
         /\ IS_DARK_MODE = osDarkAtDetect
         /\ \E i \in DOMAIN last.calls :
              /\ last.calls[i].api = DarkChromeApi
              /\ last.calls[i].arg = BoolToU32(osDarkAtDetect)
         /\ Issued(last.calls, "InvalidateRect")
    /\ (AfterErase /\ observedChange) =>
         \E i \in DOMAIN last.calls :
           /\ last.calls[i].api = "FillRect"
           /\ last.calls[i].arg = Palette(osDarkAtDetect).bk

AfterDestroy == last.msg = "WM_DESTROY"
AfterOther == last.msg \in {"WM_PAINT", "WM_NCDESTROY"}

\* every call of the sequence to one of the apis has the argument arg
AllArgs(calls, apis, arg) ==
    \A i \in DOMAIN calls : calls[i].api \in apis => calls[i].arg = arg

\* C11: once theme detection has run, isDark is true exactly when the OS
\* preference was dark at the last detection, and exactly when it is dark
\* now.
C11_ThemeEqualsOsPreference ==
    readAtDetect # "none" =>
      /\ IS_DARK_MODE <=> osDarkAtDetect
      /\ IS_DARK_MODE <=> OsDark

\* C12: theme detection has completed at least once before the window
\* procedure handles its first event, creation included.
C12_DetectedBeforeWindow ==
    (last.msg # "none" \/ pc \in {"running", "destroyed", "orphaned"}) =>
      readAtDetect # "none"

\* C12 witness: an erase-background event has painted after creation.
C12_Witness ==
    /\ AfterErase
    /\ surface # NoSurface
    /\ readAtDetect = "ok"

\* C13: an erase-background with isDark true fills with dark purple and
\* draws white text, one with isDark false fills white and draws black text;
\* no other colour pair reaches the window.
C13_PaletteTotal ==
    /\ surface \in {NoSurface, <<CLR_WHITE, CLR_BLACK>>, <<CLR_DARK_PURPLE, CLR_WHITE>>}
    /\ AfterErase =>
         LET bk == IF IS_DARK_MODE THEN CLR_DARK_PURPLE ELSE CLR_WHITE
             text == IF IS_DARK_MODE THEN CLR_WHITE ELSE CLR_BLACK
             all == last.calls \o last.nested
         IN  /\ AllArgs(all, {"CreateSolidBrush", "FillRect", "SetBkColor"}, bk)
             /\ AllArgs(all, {"SetTextColor"}, text)
             /\ Issued(all, "FillRect") /\ Issued(all, "SetTextColor")
             /\ Accepted(last.calls, "FillRect") => surface = <<bk, text>>

\* C13 witness: an erase-background painted the dark palette.
C13_Witness ==
    /\ AfterErase
    /\ IS_DARK_MODE
    /\ surface = <<CLR_DARK_PURPLE, CLR_WHITE>>

\* C14: a settings-change event handled right after another one, with the
\* registry untouched in between, leaves ThemeState, the dark-chrome value
\* it applies and the palette of a following erase-background as they were.
C14_SettingChangeIdempotent ==
    [][(WmSettingChange /\ settingRun >= 1) =>
         /\ IS_DARK_MODE' = IS_DARK_MODE
         /\ last'.calls[1].api = DarkChromeApi
         /\ last'.calls[1].arg = last.calls[1].arg
         /\ (last.calls[1].ok /\ last'.calls[1].ok) => chrome' = chrome
         /\ Palette(IS_DARK_MODE') = Palette(IS_DARK_MODE)]_vars

\* C14 witness: two settings-change events were handled in a row in dark
\* theme, both returning.
C14_Witness ==
    /\ settingRun = 2
    /\ last.returned
    /\ IS_DARK_MODE

\* C15: no transient handle (the brush of an erase-background, the module
\* handle of the legacy blur step) is held once a handler is done.
C15_NoHandleHeldBetweenEvents ==
    held = {}

\* the positions of main once the window has been destroyed
WindowGone == {"destroyed", "orphaned", "exited"}

\* C16: the destroy handler posts the quit request, the message loop then
\* exits, and once the window is destroyed main never runs the window again.
C16_DestroyTerminates ==
    /\ [](AfterDestroy => Issued(last.calls, "PostQuitMessage"))
    /\ (pc \in {"destroyed", "orphaned"}) ~> (pc = "exited")
    /\ [][(pc \in WindowGone) => (pc' \in WindowGone)]_vars

\* C16 witness: the message loop has exited after the destroy notification.
C16_Witness ==
    /\ pc = "exited"
    /\ last.msg \in {"WM_DESTROY", "WM_NCDESTROY"}

\* C17: isDark changes only in the detection at startup and in a
\* settings-change event.
C17_ThemeWrittenByDetectionOnly ==
    [][IS_DARK_MODE' # IS_DARK_MODE => (MainDetect \/ WmSettingChange)]_vars

\* C17 witness: a settings-change event made the theme dark and an event of
\* another kind was handled after it.
C17_Witness ==
    /\ IS_DARK_MODE
    /\ observedChange
    /\ last.msg = "WM_PAINT"

\* C18: an event of any other kind issues exactly DefWindowProcA with the
\* message and parameter received, returns its result, and changes neither
\* ThemeState nor FirstPaintFlag.
C18_DefaultPassThrough ==
    /\ [](AfterOther =>
            /\ Len(last.calls) = 2
            /\ last.calls[1].api = "DefWindowProcA"
            /\ last.calls[1].arg = MsgId(last.msg)
            /\ last.calls[1].extra = last.wparam
            /\ last.calls[2].api = "DefWindowProcA.result"
            /\ last.result = last.calls[2].arg
            /\ last.returned)
    /\ [][WmOther => (IS_DARK_MODE' = IS_DARK_MODE /\ IS_FIRST_PAINT' = IS_FIRST_PAINT)]_vars

\* C18 witness: WM_PAINT with a non-zero parameter returned a non-zero
\* default result after the first paint, in dark theme.
C18_Witness ==
    /\ last.msg = "WM_PAINT"
    /\ last.wparam = 1
    /\ last.result = 1
    /\ IS_DARK_MODE
    /\ ~IS_FIRST_PAINT

\* C19: an erase-background delivered re-entrantly during the forced redraw
\* request of the first one requests no forced redraw itself: the request is
\* issued once.
C19_NestedEraseDoesNotRedraw ==
    (AfterErase /\ last.nested # NoCalls) =>
      /\ Count(last.calls, "RedrawWindow") = 1
      /\ ~Issued(last.nested, "RedrawWindow")
      /\ ~IS_FIRST_PAINT
      /\ forcedRedraws = 1

\* C19 witness: the first erase-background was re-entered.
C19_Witness ==
    /\ AfterErase
    /\ Issued(last.nested, "FillRect")
    /\ forcedRedraws = 1

====
